---- MODULE Spec2Model ----
(***************************************************************************)
(* PhysicsEngine (src/unnamed/part_000) as a state machine.                *)
(*                                                                         *)
(* Numbers.  The engine computes on IEEE doubles.  The model computes on   *)
(* a fixed-point grid: lengths, velocities, accelerations, masses and the  *)
(* dimensionless factors (damping, friction, restitution) are integers in  *)
(* units of 1/Scale; time is counted in ticks of 1/TicksPerSecond second.  *)
(* Every product or quotient is rounded to the nearest grid value, halves  *)
(* away from zero, so x and -x round to exact negatives of each other as   *)
(* they do in IEEE arithmetic.                                             *)
(***************************************************************************)
EXTENDS Integers, Sequences, FiniteSets, TLC

VARIABLES
    meshPosition,          \* mesh uuid -> mesh.position of the body meshes
    meshHalf,              \* mesh uuid -> half extents of the mesh geometry
    physicsBodies,         \* this.physicsBodies, in Map insertion order
    collisionObjects,      \* this.collisionObjects
    interactableObjects,   \* this.interactableObjects
    itemCollectedCalls,    \* per interactable: invocations of onItemCollected
    triggerActivatedCalls, \* per interactable: invocations of onTriggerActivated
    removalTimers,         \* per interactable: setTimeout removals scheduled
    inScene,               \* per interactable: mesh still in the scene
    log,                   \* what the last update() did, in order
    updates,               \* update() calls so far
    calls,                 \* other API calls so far
    ragdolls,              \* the ragdollData objects createRagdoll has returned
    character              \* the CharacterController, if one was constructed

vars == <<meshPosition, meshHalf, physicsBodies, collisionObjects,
          interactableObjects, itemCollectedCalls, triggerActivatedCalls,
          removalTimers, inScene, log, updates, calls, ragdolls, character>>

---------------------------------------------------------------------------
(* Bounds of the model *)

MaxUpdates == 2
MaxCalls == 2

---------------------------------------------------------------------------
(* Number representation *)

Scale == 1000
TicksPerSecond == 120

(* Program constants, in grid units *)
GravityY == -9810
GroundLevel == 0
DefaultDamping == 950
DefaultFriction == 800
SkinWidth == 100
DefaultRadius == 500
DefaultMass == 1000
MaxDelta == 4
InteractionRange == 2000
Restitution == 500

Abs(n) == IF n < 0 THEN -n ELSE n

\* Math.sign
Sign(n) == IF n > 0 THEN 1 ELSE IF n < 0 THEN -1 ELSE 0

Min(a, b) == IF a < b THEN a ELSE b

\* n / d on the grid: nearest, halves away from zero (d > 0)
RDiv(n, d) ==
    IF n < 0 THEN -((d - 2 * n) \div (2 * d)) ELSE (2 * n + d) \div (2 * d)

RECURSIVE SqrtSearch(_, _, _)
SqrtSearch(n, lo, hi) ==
    IF lo >= hi THEN lo
    ELSE LET mid == (lo + hi + 1) \div 2
         IN IF mid * mid <= n THEN SqrtSearch(n, mid, hi)
                              ELSE SqrtSearch(n, lo, mid - 1)

\* Math.sqrt on the grid: nearest integer to the root of n (n >= 0)
Sqrt(n) ==
    LET r == SqrtSearch(n, 0, 46000)
    IN IF n - r * r > r THEN r + 1 ELSE r

---------------------------------------------------------------------------
(* THREE.Vector3 *)

Vec(a, b, c) == [x |-> a, y |-> b, z |-> c]

Zero == Vec(0, 0, 0)

VAdd(u, v) == Vec(u.x + v.x, u.y + v.y, u.z + v.z)

VSub(u, v) == Vec(u.x - v.x, u.y - v.y, u.z - v.z)

VNeg(u) == Vec(-u.x, -u.y, -u.z)

\* multiplyScalar by the rational n / d
VScale(u, n, d) == Vec(RDiv(u.x * n, d), RDiv(u.y * n, d), RDiv(u.z * n, d))

\* multiplyScalar(deltaTime), deltaTime in ticks
VTimes(u, dt) == VScale(u, dt, TicksPerSecond)

\* dot of a grid vector with a direction whose components are in 1/Scale
VDot(u, v) == u.x * v.x + u.y * v.y + u.z * v.z

\* length()
VLength(u) == Sqrt(u.x * u.x + u.y * u.y + u.z * u.z)

\* normalize(): a unit direction, components in 1/Scale
VNormalize(u) == LET len == VLength(u) IN VScale(u, Scale, len)

\* distanceTo
VDistance(u, v) == VLength(VSub(u, v))

---------------------------------------------------------------------------
(* THREE.Box3 *)

\* new Box3().setFromObject(mesh): the world box of an unrotated mesh
SetFromObject(pos, half) == [min |-> VSub(pos, half), max |-> VAdd(pos, half)]

GetCenter(box) == VScale(VAdd(box.min, box.max), 1, 2)

GetSize(box) == VSub(box.max, box.min)

IntersectsBox(a, b) ==
    ~ (  b.max.x < a.min.x \/ b.min.x > a.max.x
      \/ b.max.y < a.min.y \/ b.min.y > a.max.y
      \/ b.max.z < a.min.z \/ b.min.z > a.max.z)

Gravity == Vec(0, GravityY, 0)

---------------------------------------------------------------------------
(* An option of createRigidBody: <<>> when omitted, <<v>> when supplied *)

None == <<>>

Some(v) == <<v>>

\* options.f || d, for a numeric option
OrDefault(o, d) == IF o # None /\ o[1] # 0 THEN o[1] ELSE d

NoOptions ==
    [mass |-> None, isStatic |-> None, useGravity |-> None, damping |-> None,
     friction |-> None, collisionRadius |-> None]

CreateRigidBody(uuid, pos, half, options) ==
    [uuid |-> uuid,
     velocity |-> Zero,
     acceleration |-> Zero,
     mass |-> OrDefault(options.mass, DefaultMass),
     isStatic |-> (options.isStatic # None /\ options.isStatic[1]),
     useGravity |-> (options.useGravity # Some(FALSE)),
     damping |-> OrDefault(options.damping, DefaultDamping),
     friction |-> OrDefault(options.friction, DefaultFriction),
     boundingBox |-> SetFromObject(pos, half),
     onGround |-> FALSE,
     collisionRadius |-> OrDefault(options.collisionRadius, DefaultRadius)]

AddCollisionObject(pos, half) ==
    [boundingBox |-> SetFromObject(pos, half), type |-> "static"]

\* mesh.userData.type || 'item'
AddInteractableObject(pos, userType) ==
    [position |-> pos,
     type |-> IF userType = "" THEN "item" ELSE userType,
     collected |-> FALSE]

---------------------------------------------------------------------------
(* The registry: this.physicsBodies, a Map keyed by mesh.uuid, kept here   *)
(* as the sequence of its values in insertion order                        *)

HasBody(bodies, uuid) == \E k \in 1..Len(bodies) : bodies[k].uuid = uuid

\* Map.set: a key already present keeps its place and takes the new value
SetBody(bodies, body) ==
    IF HasBody(bodies, body.uuid)
    THEN [k \in 1..Len(bodies) |->
              IF bodies[k].uuid = body.uuid THEN body ELSE bodies[k]]
    ELSE Append(bodies, body)

\* a variant that deletes by a key the Map never holds
RemoveRigidBodyWrongKey(bodies, uuid) == bodies

\* removeRigidBody: Map.delete(mesh.uuid)
RemoveRigidBody(bodies, uuid) ==
    LET keep(b) == b.uuid # uuid IN SelectSeq(bodies, keep)

\* getPhysicsBody: Map.get(mesh.uuid), undefined (None) when absent
GetPhysicsBody(bodies, uuid) ==
    IF HasBody(bodies, uuid)
    THEN Some(bodies[CHOOSE k \in 1..Len(bodies) : bodies[k].uuid = uuid])
    ELSE None

---------------------------------------------------------------------------
(* The engine's mutable state as one value, threaded through update() *)

World ==
    [pos |-> meshPosition, bodies |-> physicsBodies,
     items |-> interactableObjects, itemCalls |-> itemCollectedCalls,
     trigCalls |-> triggerActivatedCalls, timers |-> removalTimers,
     log |-> <<>>]

Emit(w, e) == [w EXCEPT !.log = Append(@, e)]

---------------------------------------------------------------------------
(* updateRigidBody *)

\* velocity after gravity, acceleration and damping
IntegratedVelocity(body, dt) ==
    LET acc == IF body.useGravity THEN VAdd(body.acceleration, Gravity)
                                  ELSE body.acceleration
    IN VScale(VAdd(body.velocity, VTimes(acc, dt)), body.damping, Scale)

\* position.y <= groundLevel + collisionRadius
AtOrBelowGround(pos, radius) == pos.y <= GroundLevel + radius

\* the snap of position.y to the ground plane
GroundClamp(pos, radius) ==
    IF AtOrBelowGround(pos, radius) THEN [pos EXCEPT !.y = GroundLevel + radius]
                                    ELSE pos

\* a variant that forgets to stop the fall
GroundVelocityKept(vel, low) == vel

\* velocity.y = 0 when the body reached the ground moving down
GroundVelocity(vel, low) == IF low /\ vel.y < 0 THEN [vel EXCEPT !.y = 0] ELSE vel

\* onGround after the ground test: set when the body reached the ground moving
\* down, cleared above the ground, and otherwise left as it was
GroundFlag(onGround, vel, low) ==
    IF low THEN (IF vel.y < 0 THEN TRUE ELSE onGround) ELSE FALSE

\* the ground test and the bookkeeping that end the step, for a body whose
\* velocity has been integrated to vel
Land(w, i, vel, dt) ==
    LET body == w.bodies[i]
        id   == body.uuid
        pos  == VAdd(w.pos[id], VTimes(vel, dt))
        low  == AtOrBelowGround(pos, body.collisionRadius)
        pos2 == GroundClamp(pos, body.collisionRadius)
        vel2 == GroundVelocity(vel, low)
        gnd  == GroundFlag(body.onGround, vel, low)
        body2 == [body EXCEPT !.velocity = vel2,
                              !.acceleration = Zero,
                              !.onGround = gnd,
                              !.boundingBox = SetFromObject(pos2, meshHalf[id])]
        e == [kind |-> "integrate", body |-> i, radius |-> body.collisionRadius,
              pos0 |-> w.pos[id], vel0 |-> body.velocity,
              acc0 |-> body.acceleration, ground0 |-> body.onGround,
              velMid |-> vel, posMid |-> pos,
              pos1 |-> pos2, vel1 |-> vel2, ground1 |-> gnd]
    IN Emit([w EXCEPT !.pos[id] = pos2, !.bodies[i] = body2], e)

\* body.velocity is integrated once, in place, and the rest of the step reads it
UpdateRigidBody(w, i, dt) ==
    CHOOSE r \in {Land(w, i, vel, dt) : vel \in {IntegratedVelocity(w.bodies[i], dt)}} : TRUE

RECURSIVE IntegrateAll(_, _, _)
IntegrateAll(w, i, dt) ==
    IF i > Len(w.bodies) THEN w
    ELSE IF w.bodies[i].isStatic THEN IntegrateAll(w, i + 1, dt)
    ELSE IntegrateAll(UpdateRigidBody(w, i, dt), i + 1, dt)

---------------------------------------------------------------------------
(* Static collisions *)

CheckCollision(boxA, boxB) == IntersectsBox(boxA, boxB)

\* the per-axis overlaps of two boxes: half the summed sizes minus the
\* distance of the centers on that axis
Overlaps(boxA, boxB) ==
    LET sep == VSub(GetCenter(boxA), GetCenter(boxB))
        sa  == GetSize(boxA)
        sb  == GetSize(boxB)
    IN Vec(RDiv(sa.x + sb.x, 2) - Abs(sep.x),
           RDiv(sa.y + sb.y, 2) - Abs(sep.y),
           RDiv(sa.z + sb.z, 2) - Abs(sep.z))

\* the minimum-overlap axis: X unless Y is strictly smaller, then Z if
\* strictly smaller than the minimum so far
SeparationAxisName(ov) ==
    LET afterY == IF Abs(ov.y) < Abs(ov.x) THEN "y" ELSE "x"
        minY   == IF Abs(ov.y) < Abs(ov.x) THEN Abs(ov.y) ELSE Abs(ov.x)
    IN IF Abs(ov.z) < minY THEN "z" ELSE afterY

Component(v, axis) == IF axis = "x" THEN v.x ELSE IF axis = "y" THEN v.y ELSE v.z

\* new Vector3(Math.sign(separation.x), 0, 0) and its Y and Z forms
AxisVector(axis, sep) ==
    IF axis = "x" THEN Vec(Sign(sep.x), 0, 0)
    ELSE IF axis = "y" THEN Vec(0, Sign(sep.y), 0)
    ELSE Vec(0, 0, Sign(sep.z))

ResolveCollision(w, i, k) ==
    LET body == w.bodies[i]
        id   == body.uuid
        obox == collisionObjects[k].boundingBox
        sep  == VSub(GetCenter(body.boundingBox), GetCenter(obox))
        ov   == Overlaps(body.boundingBox, obox)
        axis == SeparationAxisName(ov)
        minOverlap == Abs(Component(ov, axis))
        unit == AxisVector(axis, sep)
        \* separationAxis.length() of a sign vector is 0 or 1
        separationDistance == (minOverlap + SkinWidth) * Abs(Component(unit, axis))
        \* multiplyScalar scales separationAxis in place: from here on the
        \* "axis" carries the separation distance as its length
        scaled == Vec(unit.x * separationDistance, unit.y * separationDistance,
                      unit.z * separationDistance)
        pos2 == VAdd(w.pos[id], scaled)
        velocityDotNormal == RDiv(VDot(body.velocity, scaled), Scale)
        factor == RDiv((-velocityDotNormal) * body.friction, Scale)
        vel2 == IF VDot(body.velocity, scaled) < 0
                THEN VAdd(body.velocity, VScale(scaled, factor, Scale))
                ELSE body.velocity
        box2 == SetFromObject(pos2, meshHalf[id])
        e == [kind |-> "static", body |-> i, obstacle |-> k, axis |-> axis,
              unit |-> unit, box0 |-> body.boundingBox, box1 |-> box2,
              pos0 |-> w.pos[id], pos1 |-> pos2,
              vel0 |-> body.velocity, vel1 |-> vel2]
    IN Emit([w EXCEPT !.pos[id] = pos2,
                      !.bodies[i].velocity = vel2,
                      !.bodies[i].boundingBox = box2], e)

---------------------------------------------------------------------------
(* Dynamic-dynamic collisions *)

\* bodyA.mesh.position.add(separation.clone().multiplyScalar(separationDistance))
PushA(normal, separationDistance) == VScale(normal, separationDistance, Scale)

\* a variant that moves body B only half as far as body A
PushBHalf(normal, separationDistance) == VScale(normal, -separationDistance, 2 * Scale)

\* bodyB.mesh.position.add(separation.clone().multiplyScalar(-separationDistance))
PushB(normal, separationDistance) == VScale(normal, -separationDistance, Scale)

\* a variant that splits the penetration in four instead of in two
SeparationDistanceQuarter(radiusA, radiusB, distance) ==
    RDiv(radiusA + radiusB - distance + SkinWidth, 4)

\* (bodyA.collisionRadius + bodyB.collisionRadius - distance + this.skinWidth) / 2
SeparationDistance(radiusA, radiusB, distance) ==
    RDiv(radiusA + radiusB - distance + SkinWidth, 2)

\* a variant with restitution 1: the closing velocity is returned in full
ImpulseElastic(velocityAlongNormal, massA, massB) ==
    RDiv(2 * Scale * RDiv(velocityAlongNormal, Scale), massA + massB)

\* (1 + restitution) * velocityAlongNormal / (bodyA.mass + bodyB.mass)
Impulse(velocityAlongNormal, massA, massB) ==
    RDiv((Scale + Restitution) * RDiv(velocityAlongNormal, Scale), massA + massB)

\* separation.clone().multiplyScalar(-impulse * bodyB.mass)
KickA(normal, impulse, massB) ==
    VScale(normal, RDiv((-impulse) * massB, Scale), Scale)

\* a variant that scales body B's kick by a unit mass instead of body A's
KickBUnitMass(normal, impulse, massA) ==
    VScale(normal, RDiv(impulse * DefaultMass, Scale), Scale)

\* separation.clone().multiplyScalar(impulse * bodyA.mass)
KickB(normal, impulse, massA) ==
    VScale(normal, RDiv(impulse * massA, Scale), Scale)

\* a variant that, whatever the distance, nudges body A aside by the skin width
ResolveDynamicCollisionNudge(w, i, j) ==
    LET bodyA == w.bodies[i]
        bodyB == w.bodies[j]
        separation == VSub(GetCenter(bodyA.boundingBox), GetCenter(bodyB.boundingBox))
        posA == VAdd(w.pos[bodyA.uuid], Vec(SkinWidth, 0, 0))
        boxA == SetFromObject(posA, meshHalf[bodyA.uuid])
    IN Emit([w EXCEPT !.pos[bodyA.uuid] = posA, !.bodies[i].boundingBox = boxA],
            [kind |-> "dynamic", a |-> i, b |-> j, branch |-> "nudge",
             distance |-> VLength(separation), separation |-> separation,
             posA0 |-> w.pos[bodyA.uuid], posB0 |-> w.pos[bodyB.uuid],
             posA1 |-> posA, posB1 |-> w.pos[bodyB.uuid],
             velA0 |-> bodyA.velocity, velB0 |-> bodyB.velocity,
             velA1 |-> bodyA.velocity, velB1 |-> bodyB.velocity,
             boxA1 |-> boxA, boxB1 |-> bodyB.boundingBox])

ResolveDynamicCollision(w, i, j) ==
    LET bodyA == w.bodies[i]
        bodyB == w.bodies[j]
        idA == bodyA.uuid
        idB == bodyB.uuid
        separation == VSub(GetCenter(bodyA.boundingBox), GetCenter(bodyB.boundingBox))
        distance == VLength(separation)
        normal == VNormalize(separation)
        separationDistance ==
            SeparationDistance(bodyA.collisionRadius, bodyB.collisionRadius, distance)
        posA == VAdd(w.pos[idA], PushA(normal, separationDistance))
        posB == VAdd(w.pos[idB], PushB(normal, separationDistance))
        relativeVelocity == VSub(bodyA.velocity, bodyB.velocity)
        velocityAlongNormal == VDot(relativeVelocity, normal)
        impulse == Impulse(velocityAlongNormal, bodyA.mass, bodyB.mass)
        velA == VAdd(bodyA.velocity, KickA(normal, impulse, bodyB.mass))
        velB == VAdd(bodyB.velocity, KickB(normal, impulse, bodyA.mass))
        ev(branch, pA, pB, vA, vB, bA, bB) ==
            [kind |-> "dynamic", a |-> i, b |-> j, branch |-> branch,
             distance |-> distance, separation |-> separation,
             normal |-> IF distance > 0 THEN normal ELSE Zero,
             posA0 |-> w.pos[idA], posB0 |-> w.pos[idB], posA1 |-> pA, posB1 |-> pB,
             velA0 |-> bodyA.velocity, velB0 |-> bodyB.velocity,
             velA1 |-> vA, velB1 |-> vB, boxA1 |-> bA, boxB1 |-> bB]
    IN IF distance > 0
       THEN IF velocityAlongNormal > 0
            \* "Objects separating": returns before the boxes are recomputed
            THEN Emit([w EXCEPT !.pos[idA] = posA, !.pos[idB] = posB],
                      ev("separating", posA, posB, bodyA.velocity, bodyB.velocity,
                         bodyA.boundingBox, bodyB.boundingBox))
            ELSE Emit([w EXCEPT !.pos[idA] = posA, !.pos[idB] = posB,
                                !.bodies[i].velocity = velA,
                                !.bodies[j].velocity = velB,
                                !.bodies[i].boundingBox = SetFromObject(posA, meshHalf[idA]),
                                !.bodies[j].boundingBox = SetFromObject(posB, meshHalf[idB])],
                      ev("impulse", posA, posB, velA, velB,
                         SetFromObject(posA, meshHalf[idA]),
                         SetFromObject(posB, meshHalf[idB])))
       ELSE Emit([w EXCEPT !.bodies[i].boundingBox = SetFromObject(w.pos[idA], meshHalf[idA]),
                           !.bodies[j].boundingBox = SetFromObject(w.pos[idB], meshHalf[idB])],
                 ev("coincident", w.pos[idA], w.pos[idB], bodyA.velocity, bodyB.velocity,
                    SetFromObject(w.pos[idA], meshHalf[idA]),
                    SetFromObject(w.pos[idB], meshHalf[idB])))

---------------------------------------------------------------------------
(* handleCollisions *)

RECURSIVE StaticLoop(_, _, _)
StaticLoop(w, i, k) ==
    IF k > Len(collisionObjects) THEN w
    ELSE LET hit == CheckCollision(w.bodies[i].boundingBox,
                                   collisionObjects[k].boundingBox)
             t == Emit(w, [kind |-> "test", body |-> i, other |-> k,
                           dynamic |-> FALSE, hit |-> hit])
         IN StaticLoop(IF hit THEN ResolveCollision(t, i, k) ELSE t, i, k + 1)

\* a variant that takes static bodies as partners too
RECURSIVE DynamicLoopAnyPartner(_, _, _)
DynamicLoopAnyPartner(w, i, j) ==
    IF j > Len(w.bodies) THEN w
    ELSE IF j = i THEN DynamicLoopAnyPartner(w, i, j + 1)
    ELSE LET hit == CheckCollision(w.bodies[i].boundingBox, w.bodies[j].boundingBox)
             t == Emit(w, [kind |-> "test", body |-> i, other |-> j,
                           dynamic |-> TRUE, hit |-> hit])
         IN DynamicLoopAnyPartner(IF hit THEN ResolveDynamicCollision(t, i, j) ELSE t,
                                  i, j + 1)

RECURSIVE DynamicLoop(_, _, _)
DynamicLoop(w, i, j) ==
    IF j > Len(w.bodies) THEN w
    ELSE IF j = i \/ w.bodies[j].isStatic THEN DynamicLoop(w, i, j + 1)
    ELSE LET hit == CheckCollision(w.bodies[i].boundingBox, w.bodies[j].boundingBox)
             t == Emit(w, [kind |-> "test", body |-> i, other |-> j,
                           dynamic |-> TRUE, hit |-> hit])
         IN DynamicLoop(IF hit THEN ResolveDynamicCollision(t, i, j) ELSE t, i, j + 1)

\* a variant that resolves a body's dynamic collisions before its static ones
RECURSIVE CollisionLoopDynamicFirst(_, _)
CollisionLoopDynamicFirst(w, i) ==
    IF i > Len(w.bodies) THEN w
    ELSE IF w.bodies[i].isStatic THEN CollisionLoopDynamicFirst(w, i + 1)
    ELSE CollisionLoopDynamicFirst(StaticLoop(DynamicLoop(w, i, 1), i, 1), i + 1)

RECURSIVE CollisionLoop(_, _)
CollisionLoop(w, i) ==
    IF i > Len(w.bodies) THEN w
    ELSE IF w.bodies[i].isStatic THEN CollisionLoop(w, i + 1)
    ELSE CollisionLoop(DynamicLoop(StaticLoop(w, i, 1), i, 1), i + 1)

HandleCollisions(w) == CollisionLoop(w, 1)

---------------------------------------------------------------------------
(* Interactions *)

\* a variant without the guard on item.collected
CollectItemUnguarded(w, n) ==
    [w EXCEPT !.items[n].collected = TRUE,
              !.timers[n] = @ + 1,
              !.itemCalls[n] = @ + 1]

\* collectItem: the guard, the flag, the delayed scene removal, the callback
\* (animatePickup's first frame leaves the mesh where it is)
CollectItem(w, n) ==
    IF w.items[n].collected THEN w
    ELSE [w EXCEPT !.items[n].collected = TRUE,
                   !.timers[n] = @ + 1,
                   !.itemCalls[n] = @ + 1]

\* a variant that latches: the trigger is marked as an item is when collected
ActivateTriggerLatched(w, n) ==
    [w EXCEPT !.trigCalls[n] = @ + 1, !.items[n].collected = TRUE]

\* activateTrigger: the callback, nothing else
ActivateTrigger(w, n) == [w EXCEPT !.trigCalls[n] = @ + 1]

\* a variant without the 'item' case
HandleInteractionNoItem(w, i, n) ==
    IF w.items[n].type = "trigger" THEN ActivateTrigger(w, n) ELSE w

\* a variant whose default case collects, as the 'item' case does
HandleInteractionDefaultItem(w, i, n) ==
    IF w.items[n].type = "trigger" THEN ActivateTrigger(w, n) ELSE CollectItem(w, n)

HandleInteraction(w, i, n) ==
    IF w.items[n].type = "item" THEN CollectItem(w, n)
    ELSE IF w.items[n].type = "trigger" THEN ActivateTrigger(w, n)
    ELSE w

\* position.distanceTo(...) < 2.0, decided on the squares so that the
\* rounding of the root never moves a pair across the range
InInteractionRange(p, q) ==
    LET d == VSub(p, q)
    IN d.x * d.x + d.y * d.y + d.z * d.z < InteractionRange * InteractionRange

RECURSIVE CheckInteractions(_, _, _)
CheckInteractions(w, i, n) ==
    IF n > Len(w.items) THEN w
    ELSE IF w.items[n].collected THEN CheckInteractions(w, i, n + 1)
    ELSE LET near == InInteractionRange(w.pos[w.bodies[i].uuid], w.items[n].position)
             t == Emit(w, [kind |-> "interact", body |-> i, item |-> n,
                           type |-> w.items[n].type, near |-> near,
                           pos |-> w.pos[w.bodies[i].uuid]])
         IN CheckInteractions(IF near THEN HandleInteraction(t, i, n) ELSE t, i, n + 1)

RECURSIVE InteractionLoop(_, _)
InteractionLoop(w, i) ==
    IF i > Len(w.bodies) THEN w
    ELSE InteractionLoop(CheckInteractions(w, i, 1), i + 1)

UpdateInteractions(w) == InteractionLoop(w, 1)

---------------------------------------------------------------------------
(* update(deltaTime) *)

\* a variant that passes the delta on as it comes
ClampDeltaOff(deltaTime) == deltaTime

ClampDelta(deltaTime) == Min(deltaTime, MaxDelta)

\* a variant that evaluates the interactions before the collisions
UpdateInteractionsEarly(w, deltaTime) ==
    HandleCollisions(UpdateInteractions(IntegrateAll(w, 1, ClampDelta(deltaTime))))

Update(w, deltaTime) ==
    UpdateInteractions(HandleCollisions(IntegrateAll(w, 1, ClampDelta(deltaTime))))

\* applyForce: acceleration += force / mass
ApplyForce(body, force) ==
    [body EXCEPT !.acceleration = VAdd(@, VScale(force, Scale, body.mass))]

\* applyImpulse: velocity += impulse / mass
ApplyImpulse(body, impulse) ==
    [body EXCEPT !.velocity = VAdd(@, VScale(impulse, Scale, body.mass))]

---------------------------------------------------------------------------
(* Ragdolls *)

\* damping: 0.8 of a bone body
BoneDamping == 800

\* mass: 1.0 of a bone body
BoneMass == 1000

\* createRagdoll for bones at the given positions
CreateRagdoll(bonePositions) ==
    [isActive |-> FALSE,
     joints |-> <<>>,
     bones |-> [k \in 1..Len(bonePositions) |->
                   [position |-> bonePositions[k],
                    velocity |-> Zero,
                    acceleration |-> Zero,
                    mass |-> BoneMass,
                    damping |-> BoneDamping]]]

\* activateRagdoll, forces[k] being the random force drawn for bone k
ActivateRagdoll(ragdollData, forces) ==
    [ragdollData EXCEPT
        !.isActive = TRUE,
        !.bones = [k \in 1..Len(@) |-> ApplyForce(@[k], forces[k])]]

\* the body of updateRagdoll's loop
UpdateBone(boneBody, deltaTime) ==
    LET acceleration == VAdd(boneBody.acceleration, Gravity)
        velocity == VScale(VAdd(boneBody.velocity, VTimes(acceleration, deltaTime)),
                           boneBody.damping, Scale)
    IN [boneBody EXCEPT !.velocity = velocity,
                        !.position = VAdd(@, VTimes(velocity, deltaTime)),
                        !.acceleration = Zero]

\* a variant without the test of isActive
UpdateRagdollUnguarded(ragdollData, deltaTime) ==
    [ragdollData EXCEPT !.bones = [k \in 1..Len(@) |-> UpdateBone(@[k], deltaTime)]]

UpdateRagdoll(ragdollData, deltaTime) ==
    IF ~ ragdollData.isActive THEN ragdollData
    ELSE [ragdollData EXCEPT
             !.bones = [k \in 1..Len(@) |-> UpdateBone(@[k], deltaTime)]]

---------------------------------------------------------------------------
(* CharacterController: the keyboard, handleInput and updateMovement, with *)
(* the pointer never moved (mouseX = 0, so right = +x and forward = -z)    *)

\* this.gravity = -30, this.jumpVelocity = 15
CharGravity == -30000
JumpVelocity == 15000

\* this.maxSpeed = 8, this.acceleration = 20, this.deceleration = 15
MaxSpeed == 8000
CharAcceleration == 20000
CharDeceleration == 15000

Max(a, b) == IF a > b THEN a ELSE b

\* the controller as its constructor leaves it, the model at the origin
NewCharacter ==
    [keys |-> {},
     velocity |-> Zero,
     direction |-> Zero,
     speed |-> 0,
     position |-> Zero,
     isCrouching |-> FALSE,
     isSprinting |-> FALSE,
     isJumping |-> FALSE,
     onGround |-> TRUE]

\* the test that starts a jump
JumpRequested(c) == ("Space" \in c.keys \/ "KeyW" \in c.keys) /\ c.onGround

HandleInput(c) ==
    LET pressed(code) == IF code \in c.keys THEN 1 ELSE 0
        d == Vec((pressed("KeyD") - pressed("KeyA")) * Scale, 0,
                 (pressed("KeyS") - pressed("KeyW")) * Scale)
        direction == IF VLength(d) > 0 THEN VNormalize(d) ELSE d
        c1 == [c EXCEPT !.direction = direction,
                        !.isSprinting = c.keys \cap {"ShiftLeft", "ShiftRight"} # {},
                        !.isCrouching = c.keys \cap {"ControlLeft", "ControlRight"} # {}]
    IN IF JumpRequested(c)
       THEN [c1 EXCEPT !.velocity.y = JumpVelocity,
                       !.onGround = FALSE,
                       !.isJumping = TRUE]
       ELSE c1

UpdateMovement(c, deltaTime) ==
    LET targetSpeed ==
            IF VLength(c.direction) > 0
            THEN IF c.isCrouching THEN RDiv(MaxSpeed * 3, 10)
                 ELSE IF c.isSprinting THEN RDiv(MaxSpeed * 15, 10)
                 ELSE RDiv(MaxSpeed * 7, 10)
            ELSE 0
        speed ==
            IF targetSpeed > c.speed
            THEN Min(targetSpeed, c.speed + RDiv(CharAcceleration * deltaTime, TicksPerSecond))
            ELSE IF targetSpeed < c.speed
            THEN Max(targetSpeed, c.speed - RDiv(CharDeceleration * deltaTime, TicksPerSecond))
            ELSE c.speed
        vy == IF ~ c.onGround
              THEN c.velocity.y + RDiv(CharGravity * deltaTime, TicksPerSecond)
              ELSE c.velocity.y
        velocity == Vec(RDiv(c.direction.x * speed, Scale), vy,
                        RDiv((-c.direction.z) * speed, Scale))
        position == VAdd(c.position, VTimes(velocity, deltaTime))
    IN IF position.y <= 0
       THEN [c EXCEPT !.speed = speed,
                      !.velocity = [velocity EXCEPT !.y = 0],
                      !.position = [position EXCEPT !.y = 0],
                      !.onGround = TRUE,
                      !.isJumping = FALSE]
       ELSE [c EXCEPT !.speed = speed, !.velocity = velocity, !.position = position]

\* update(deltaTime), without the animation mixer
CharacterUpdate(c, deltaTime) == UpdateMovement(HandleInput(c), deltaTime)

---------------------------------------------------------------------------
(* raycastCollision, for rays along a coordinate axis against box meshes *)

\* the axis a unit direction points along
RayAxis(direction) ==
    IF direction.x # 0 THEN "x" ELSE IF direction.y # 0 THEN "y" ELSE "z"

\* the ray passes through the box's extent on the two other axes
RayInLine(origin, direction, box) ==
    \A a \in {"x", "y", "z"} \ {RayAxis(direction)} :
        /\ Component(box.min, a) <= Component(origin, a)
        /\ Component(origin, a) <= Component(box.max, a)

\* distance from the origin to the face of the box turned towards it, or -1
\* when the ray misses the box; a ray that starts inside the box meets only
\* faces from behind, which a front-sided mesh does not report
RayDistance(origin, direction, box) ==
    LET a == RayAxis(direction)
        o == Component(origin, a)
        forward == Component(direction, a) > 0
        face == IF forward THEN Component(box.min, a) ELSE Component(box.max, a)
    IN IF ~ RayInLine(origin, direction, box) THEN -1
       ELSE IF forward /\ o < face THEN face - o
       ELSE IF ~ forward /\ o > face THEN o - face
       ELSE -1

\* this.raycaster.intersectObjects(meshes): the hits, nearest first, equal
\* distances in the order of the meshes
RECURSIVE SortedHits(_, _, _)
SortedHits(origin, direction, rest) ==
    IF rest = {} THEN <<>>
    ELSE LET dist(k) == RayDistance(origin, direction, collisionObjects[k].boundingBox)
             k == CHOOSE c \in rest :
                      \A o \in rest :
                          dist(c) < dist(o) \/ (dist(c) = dist(o) /\ c <= o)
         IN <<[object |-> k, distance |-> dist(k)]>>
            \o SortedHits(origin, direction, rest \ {k})

\* a variant that reads the hits in the order of the registry
IntersectObjectsUnsorted(origin, direction) ==
    LET hit == {k \in 1..Len(collisionObjects) :
                    RayDistance(origin, direction, collisionObjects[k].boundingBox) >= 0}
        F[n \in 0..Len(collisionObjects)] ==
            IF n = 0 THEN <<>>
            ELSE IF n \in hit
                 THEN Append(F[n - 1],
                             [object |-> n,
                              distance |-> RayDistance(origin, direction,
                                                       collisionObjects[n].boundingBox)])
                 ELSE F[n - 1]
    IN F[Len(collisionObjects)]

IntersectObjects(origin, direction) ==
    SortedHits(origin, direction,
               {k \in 1..Len(collisionObjects) :
                    RayDistance(origin, direction, collisionObjects[k].boundingBox) >= 0})

Miss == [hit |-> FALSE]

\* maxDistance = 10 of raycastCollision, maxDistance = 2.0 of checkGround
DefaultMaxDistance == 10000
GroundMaxDistance == 2000

RaycastCollision(origin, direction, maxDistance) ==
    LET intersects == IntersectObjects(origin, direction)
    IN IF Len(intersects) > 0 /\ intersects[1].distance <= maxDistance
       THEN [hit |-> TRUE,
             point |-> VAdd(origin, VScale(direction, intersects[1].distance, Scale)),
             normal |-> VNeg(direction),
             distance |-> intersects[1].distance,
             object |-> intersects[1].object]
       ELSE Miss

CheckGround(position, maxDistance) ==
    RaycastCollision(position, Vec(0, -Scale, 0), maxDistance)

---------------------------------------------------------------------------
(* The worlds explored: two body meshes, one obstacle, two interactables *)

UnitCube == Vec(500, 500, 500)

\* mesh 1 starts sunk into the ground or in the air
Mesh1Positions == {Vec(0, 0, 0), Vec(0, 1500, 0)}

\* mesh 2 starts where mesh 1 lands, or overlapping that place
Mesh2Positions == {Vec(0, 500, 0), Vec(400, 500, 0)}

\* the obstacle is centred where mesh 1 lands, or overlaps mesh 2 only
ObstaclePositions == {Vec(0, 500, 0), Vec(1200, 500, 0)}

\* the first interactable is in reach of both meshes, or exactly 2.0 from mesh 1
ItemPositions == {Vec(1500, 500, 0), Vec(2000, 500, 0)}

TriggerPosition == Vec(0, 500, 1500)

\* userData.type of the first interactable: unset
ItemUserTypes == {""}

\* deltaTime in ticks: 1/60 s, 1/20 s
DeltaTimes == {2, 6}

\* forces: one that cancels gravity on a unit mass, one that outweighs it
Forces == {Vec(0, 9810, 0), Vec(0, 120000, 0)}

\* impulses: downward and away from mesh 2
Impulses == {Vec(-1000, -1000, 0)}

\* the body the caller pushes (the player's)
Pushed == {1}

\* the interactable the caller collects directly
Picked == {1}

Init ==
    \E p1 \in Mesh1Positions, p2 \in Mesh2Positions, po \in ObstaclePositions,
       pi \in ItemPositions, ut \in ItemUserTypes,
       g1 \in {None, Some(FALSE)}, s2 \in {None, Some(TRUE)} :
        /\ meshPosition = <<p1, p2>>
        /\ meshHalf = <<UnitCube, UnitCube>>
        /\ physicsBodies =
             << CreateRigidBody(1, p1, UnitCube, [NoOptions EXCEPT !.useGravity = g1]),
                CreateRigidBody(2, p2, UnitCube,
                                [NoOptions EXCEPT !.isStatic = s2, !.mass = Some(2000)]) >>
        /\ collisionObjects = << AddCollisionObject(po, UnitCube) >>
        /\ interactableObjects =
             << AddInteractableObject(pi, ut),
                AddInteractableObject(TriggerPosition, "trigger") >>
        /\ itemCollectedCalls = <<0, 0>>
        /\ triggerActivatedCalls = <<0, 0>>
        /\ removalTimers = <<0, 0>>
        /\ inScene = <<TRUE, TRUE>>
        /\ log = <<>>
        /\ updates = 0
        /\ calls = 0
        /\ ragdolls = <<>>
        /\ character = None

\* the engine's variables after update(deltaTime)
Step(deltaTime) ==
    \E w \in {Update(World, deltaTime)} :
       /\ meshPosition' = w.pos
       /\ physicsBodies' = w.bodies
       /\ interactableObjects' = w.items
       /\ itemCollectedCalls' = w.itemCalls
       /\ triggerActivatedCalls' = w.trigCalls
       /\ removalTimers' = w.timers
       /\ log' = w.log
       /\ UNCHANGED <<meshHalf, character, ragdolls, collisionObjects, inScene>>

DoUpdate ==
    \E deltaTime \in DeltaTimes :
        /\ updates < MaxUpdates
        /\ updates' = updates + 1
        /\ Step(deltaTime)
        /\ UNCHANGED calls

DoApplyForce ==
    \E i \in Pushed, force \in Forces :
        /\ calls < MaxCalls
        /\ calls' = calls + 1
        /\ physicsBodies' = [physicsBodies EXCEPT ![i] = ApplyForce(@, force)]
        /\ UNCHANGED <<meshPosition, meshHalf, character, ragdolls, collisionObjects,
                       interactableObjects,
                       itemCollectedCalls, triggerActivatedCalls, removalTimers,
                       inScene, log, updates>>

DoApplyImpulse ==
    \E i \in Pushed, impulse \in Impulses :
        /\ calls < MaxCalls
        /\ calls' = calls + 1
        /\ physicsBodies' = [physicsBodies EXCEPT ![i] = ApplyImpulse(@, impulse)]
        /\ UNCHANGED <<meshPosition, meshHalf, character, ragdolls, collisionObjects,
                       interactableObjects,
                       itemCollectedCalls, triggerActivatedCalls, removalTimers,
                       inScene, log, updates>>

\* collectItem called from outside the update
DoCollectItem ==
    \E n \in Picked :
        \E w \in {CollectItem(World, n)} :
           /\ calls < MaxCalls
           /\ calls' = calls + 1
           /\ interactableObjects' = w.items
           /\ itemCollectedCalls' = w.itemCalls
           /\ removalTimers' = w.timers
           /\ UNCHANGED <<meshPosition, meshHalf, character, ragdolls, physicsBodies,
                       collisionObjects,
                          triggerActivatedCalls, inScene, log, updates>>

\* the setTimeout of collectItem fires: this.scene.remove(item.mesh)
RemoveFromScene ==
    \E n \in 1..Len(interactableObjects) :
        /\ removalTimers[n] > 0
        /\ removalTimers' = [removalTimers EXCEPT ![n] = @ - 1]
        /\ inScene' = [inScene EXCEPT ![n] = FALSE]
        /\ UNCHANGED <<meshPosition, meshHalf, character, ragdolls, physicsBodies,
                       collisionObjects,
                       interactableObjects, itemCollectedCalls,
                       triggerActivatedCalls, log, updates, calls>>

Next ==
    \/ DoUpdate
    \/ DoApplyForce
    \/ DoApplyImpulse
    \/ DoCollectItem
    \/ RemoveFromScene

Spec == Init /\ [][Next]_vars

---------------------------------------------------------------------------
(* The falling body: one dynamic body at (0, 5, 0), defaults throughout,   *)
(* nothing else in the world, update(1/60) called again and again as the   *)
(* render loop does                                                        *)

FallStart == Vec(0, 5000, 0)

InitFall ==
    /\ meshPosition = <<FallStart>>
    /\ meshHalf = <<UnitCube>>
    /\ physicsBodies = << CreateRigidBody(1, FallStart, UnitCube, NoOptions) >>
    /\ collisionObjects = <<>>
    /\ interactableObjects = <<>>
    /\ itemCollectedCalls = <<>>
    /\ triggerActivatedCalls = <<>>
    /\ removalTimers = <<>>
    /\ inScene = <<>>
    /\ log = <<>>
    /\ updates = 0
    /\ calls = 0
    /\ ragdolls = <<>>
    /\ character = None

Frame == Step(2) /\ UNCHANGED <<updates, calls>>

NextFall == Frame

SpecFall == InitFall /\ [][NextFall]_vars /\ WF_vars(Frame)

---------------------------------------------------------------------------
(* Pickups: two bodies and two interactables tagged as the game tags them, *)
(* the first with userData.type 'health_potion', 'door' or none, the       *)
(* second, listed after it, with none or 'health_potion'                   *)

FirstUserTypes == {"health_potion", "door", ""}

SecondUserTypes == {"", "health_potion"}

SecondPosition == Vec(1000, 500, 0)

InitPickup ==
    \E p1 \in Mesh1Positions, p2 \in Mesh2Positions, pi \in ItemPositions,
       ut1 \in FirstUserTypes, ut2 \in SecondUserTypes, s2 \in {None, Some(TRUE)} :
        /\ meshPosition = <<p1, p2>>
        /\ meshHalf = <<UnitCube, UnitCube>>
        /\ physicsBodies =
             << CreateRigidBody(1, p1, UnitCube, NoOptions),
                CreateRigidBody(2, p2, UnitCube, [NoOptions EXCEPT !.isStatic = s2]) >>
        /\ collisionObjects = <<>>
        /\ interactableObjects =
             << AddInteractableObject(pi, ut1),
                AddInteractableObject(SecondPosition, ut2) >>
        /\ itemCollectedCalls = <<0, 0>>
        /\ triggerActivatedCalls = <<0, 0>>
        /\ removalTimers = <<0, 0>>
        /\ inScene = <<TRUE, TRUE>>
        /\ log = <<>>
        /\ updates = 0
        /\ calls = 0
        /\ ragdolls = <<>>
        /\ character = None

NextPickup ==
    \/ DoUpdate
    \/ DoApplyImpulse
    \/ RemoveFromScene

SpecPickup == InitPickup /\ [][NextPickup]_vars

---------------------------------------------------------------------------
(* The registry at work: two meshes, bodies created for them and removed   *)
(* between updates, an item within reach of the second mesh only           *)

Meshes == {1, 2}

RegistryPositions == <<Vec(0, 1500, 0), Vec(400, 1500, 0)>>

RegistryItem == Vec(2300, 1500, 0)

\* the options a body is created with
RegistryOptions == {NoOptions, [NoOptions EXCEPT !.useGravity = Some(FALSE)]}

\* the bodies created before the first update, in the order of creation
InitialMeshes == {<<>>, <<1>>, <<1, 2>>, <<2, 1>>}

InitRegistry ==
    \E order \in InitialMeshes :
        /\ meshPosition = RegistryPositions
        /\ meshHalf = <<UnitCube, UnitCube>>
        /\ physicsBodies =
             [k \in 1..Len(order) |->
                  CreateRigidBody(order[k], RegistryPositions[order[k]], UnitCube, NoOptions)]
        /\ collisionObjects = <<>>
        /\ interactableObjects = << AddInteractableObject(RegistryItem, "") >>
        /\ itemCollectedCalls = <<0>>
        /\ triggerActivatedCalls = <<0>>
        /\ removalTimers = <<0>>
        /\ inScene = <<TRUE>>
        /\ log = <<>>
        /\ updates = 0
        /\ calls = 0
        /\ ragdolls = <<>>
        /\ character = None

\* a call on the registry, kept in the log with its arguments
Registered(bodies, e) ==
    /\ calls < MaxCalls
    /\ calls' = calls + 1
    /\ physicsBodies' = bodies
    /\ log' = <<e>>
    /\ UNCHANGED <<meshPosition, meshHalf, character, ragdolls, collisionObjects,
                       interactableObjects,
                   itemCollectedCalls, triggerActivatedCalls, removalTimers,
                   inScene, updates>>

DoCreateRigidBody ==
    \E uuid \in Meshes, options \in RegistryOptions :
        Registered(SetBody(physicsBodies,
                           CreateRigidBody(uuid, meshPosition[uuid], meshHalf[uuid], options)),
                   [kind |-> "create", mesh |-> uuid, options |-> options,
                    had |-> HasBody(physicsBodies, uuid)])

DoRemoveRigidBody ==
    \E uuid \in Meshes :
        Registered(RemoveRigidBody(physicsBodies, uuid),
                   [kind |-> "remove", mesh |-> uuid,
                    had |-> HasBody(physicsBodies, uuid)])

NextRegistry ==
    \/ DoUpdate
    \/ DoCreateRigidBody
    \/ DoRemoveRigidBody
    \/ RemoveFromScene

SpecRegistry == InitRegistry /\ [][NextRegistry]_vars

---------------------------------------------------------------------------
(* A ragdoll of two bones, activated at some point, updated with deltas of *)
(* 1/60 s and 1/20 s, next to an engine that is updated too               *)

BonePositions == {<<Vec(0, 1000, 0), Vec(0, 1500, 0)>>,
                  <<Vec(0, 1000, 0), Vec(300, 1200, 0)>>}

\* (Math.random() - 0.5) * 10, Math.random() * 5, (Math.random() - 0.5) * 10
RandomForces == {Vec(-5000, 0, -5000), Vec(2500, 4000, 0)}

InitRagdoll ==
    \E bonePositions \in BonePositions :
        /\ meshPosition = <<FallStart>>
        /\ meshHalf = <<UnitCube>>
        /\ physicsBodies = << CreateRigidBody(1, FallStart, UnitCube, NoOptions) >>
        /\ collisionObjects = <<>>
        /\ interactableObjects = <<>>
        /\ itemCollectedCalls = <<>>
        /\ triggerActivatedCalls = <<>>
        /\ removalTimers = <<>>
        /\ inScene = <<>>
        /\ log = <<>>
        /\ updates = 0
        /\ calls = 0
        /\ ragdolls = << CreateRagdoll(bonePositions) >>
        /\ character = None

\* a call on a ragdoll, kept in the log with its arguments
OnRagdoll(r, ragdollData, e) ==
    /\ ragdolls' = [ragdolls EXCEPT ![r] = ragdollData]
    /\ log' = <<e>>
    /\ UNCHANGED <<meshPosition, meshHalf, character, physicsBodies, collisionObjects,
                   interactableObjects, itemCollectedCalls, triggerActivatedCalls,
                   removalTimers, inScene>>

DoActivateRagdoll ==
    \E r \in 1..Len(ragdolls), f1 \in RandomForces, f2 \in RandomForces :
        /\ calls < MaxCalls
        /\ calls' = calls + 1
        /\ OnRagdoll(r, ActivateRagdoll(ragdolls[r], <<f1, f2>>),
                     [kind |-> "activateRagdoll", ragdoll |-> r])
        /\ UNCHANGED updates

DoUpdateRagdoll ==
    \E r \in 1..Len(ragdolls), deltaTime \in DeltaTimes :
        /\ updates < MaxUpdates
        /\ updates' = updates + 1
        /\ OnRagdoll(r, UpdateRagdoll(ragdolls[r], deltaTime),
                     [kind |-> "updateRagdoll", ragdoll |-> r, deltaTime |-> deltaTime])
        /\ UNCHANGED calls

NextRagdoll ==
    \/ DoUpdate
    \/ DoActivateRagdoll
    \/ DoUpdateRagdoll

SpecRagdoll == InitRagdoll /\ [][NextRagdoll]_vars

---------------------------------------------------------------------------
(* The character at the keyboard: keys go down and up between frames       *)

KeyCodes == {"KeyW", "KeyD", "Space", "ShiftLeft"}

InitCharacter ==
    /\ meshPosition = <<>>
    /\ meshHalf = <<>>
    /\ physicsBodies = <<>>
    /\ collisionObjects = <<>>
    /\ interactableObjects = <<>>
    /\ itemCollectedCalls = <<>>
    /\ triggerActivatedCalls = <<>>
    /\ removalTimers = <<>>
    /\ inScene = <<>>
    /\ log = <<>>
    /\ updates = 0
    /\ calls = 0
    /\ ragdolls = <<>>
    /\ character = NewCharacter

\* the engine and the ragdolls are left alone
OnCharacter(c) ==
    /\ character' = c
    /\ UNCHANGED <<meshPosition, meshHalf, ragdolls, physicsBodies, collisionObjects,
                   interactableObjects, itemCollectedCalls, triggerActivatedCalls,
                   removalTimers, inScene, calls>>

\* the keydown listener
DoKeyDown ==
    \E code \in KeyCodes \ character.keys :
        /\ OnCharacter([character EXCEPT !.keys = @ \cup {code}])
        /\ UNCHANGED <<log, updates>>

\* the keyup listener
DoKeyUp ==
    \E code \in character.keys :
        /\ OnCharacter([character EXCEPT !.keys = @ \ {code}])
        /\ UNCHANGED <<log, updates>>

DoCharacterUpdate ==
    \E deltaTime \in DeltaTimes :
        \E c \in {CharacterUpdate(character, deltaTime)} :
            /\ updates < MaxUpdates
            /\ updates' = updates + 1
            /\ OnCharacter(c)
            /\ log' = << [kind |-> "character", keys |-> character.keys,
                          ground0 |-> character.onGround,
                          vel0 |-> character.velocity, vel1 |-> c.velocity,
                          pos0 |-> character.position, pos1 |-> c.position,
                          jumped |-> JumpRequested(character),
                          ground1 |-> c.onGround] >>

NextCharacter ==
    \/ DoKeyDown
    \/ DoKeyUp
    \/ DoCharacterUpdate

SpecCharacter == InitCharacter /\ [][NextCharacter]_vars

---------------------------------------------------------------------------
(* Rays: two static boxes, a dynamic body and an interactable that stand   *)
(* between the ray origins and the boxes, rays along the axes              *)

BodyInTheWay == Vec(1500, 500, 0)

ItemInTheWay == Vec(2000, 500, 0)

Box1Positions == {Vec(3000, 500, 0), Vec(6000, 500, 0)}

Box2Positions == {Vec(3000, 500, 0), Vec(6000, 500, 0), Vec(0, -2000, 0)}

RayOrigins == {Vec(0, 500, 0), Vec(0, 3000, 0), Vec(3000, 500, 0)}

RayDirections == {Vec(Scale, 0, 0), Vec(-Scale, 0, 0), Vec(0, -Scale, 0)}

MaxDistances == {2000, 2500, DefaultMaxDistance}

InitRay ==
    \E b1 \in Box1Positions, b2 \in Box2Positions :
        /\ meshPosition = <<BodyInTheWay>>
        /\ meshHalf = <<UnitCube>>
        /\ physicsBodies = << CreateRigidBody(1, BodyInTheWay, UnitCube, NoOptions) >>
        /\ collisionObjects = << AddCollisionObject(b1, UnitCube),
                                 AddCollisionObject(b2, UnitCube) >>
        /\ interactableObjects = << AddInteractableObject(ItemInTheWay, "") >>
        /\ itemCollectedCalls = <<0>>
        /\ triggerActivatedCalls = <<0>>
        /\ removalTimers = <<0>>
        /\ inScene = <<TRUE>>
        /\ log = <<>>
        /\ updates = 0
        /\ calls = 0
        /\ ragdolls = <<>>
        /\ character = None

\* the result of the call is kept in the log, with its arguments
Cast(origin, direction, maxDistance, result) ==
    /\ log' = << [kind |-> "raycast", origin |-> origin, direction |-> direction,
                  maxDistance |-> maxDistance, result |-> result] >>
    /\ UNCHANGED <<meshPosition, meshHalf, character, ragdolls, physicsBodies,
                       collisionObjects,
                   interactableObjects, itemCollectedCalls, triggerActivatedCalls,
                   removalTimers, inScene, updates, calls>>

DoRaycastCollision ==
    \E origin \in RayOrigins, direction \in RayDirections, maxDistance \in MaxDistances :
        Cast(origin, direction, maxDistance,
             RaycastCollision(origin, direction, maxDistance))

DoCheckGround ==
    \E position \in RayOrigins :
        Cast(position, Vec(0, -Scale, 0), GroundMaxDistance,
             CheckGround(position, GroundMaxDistance))

NextRay == DoRaycastCollision \/ DoCheckGround

SpecRay == InitRay /\ [][NextRay]_vars

---------------------------------------------------------------------------
(* Bodies created with supplied options: a frictionless body, an undamped  *)
(* one, a heavy small one, one with every numeric option supplied          *)

SuppliedOptions ==
    { [NoOptions EXCEPT !.friction = Some(0)],
      [NoOptions EXCEPT !.damping = Some(0)],
      [NoOptions EXCEPT !.mass = Some(2000), !.collisionRadius = Some(300)],
      [NoOptions EXCEPT !.friction = Some(500), !.damping = Some(900),
                        !.mass = Some(3000), !.collisionRadius = Some(1000)] }

DoCreateSupplied ==
    \E uuid \in Meshes, options \in SuppliedOptions :
        Registered(SetBody(physicsBodies,
                           CreateRigidBody(uuid, meshPosition[uuid], meshHalf[uuid],
                                           options)),
                   [kind |-> "create", mesh |-> uuid, options |-> options,
                    had |-> HasBody(physicsBodies, uuid)])

NextOptions ==
    \/ DoUpdate
    \/ DoCreateSupplied

SpecOptions == InitRegistry /\ [][NextOptions]_vars

---------------------------------------------------------------------------
(* A pair of dynamic bodies: the first rests on the ground, the second     *)
(* overlaps it from the side, from above or across a corner, or coincides  *)
(* with it; the caller pushes either of them                               *)

\* beside the first body, on top of it, across its upper edge, in its place
PairSecondPositions ==
    {Vec(600, 500, 0), Vec(0, 1300, 0), Vec(900, 1400, 0), Vec(0, 500, 0)}

\* options.mass of the first body: omitted, 3.0
PairMasses == {None, Some(3000)}

\* options.collisionRadius of the second body: omitted, 0.3
PairRadii == {None, Some(300)}

\* impulses: towards the second body, downward
PairImpulses == {Vec(1500, 0, 0), Vec(0, -1000, 0)}

InitPair ==
    \E p1 \in {Vec(0, 500, 0)}, p2 \in PairSecondPositions,
       m1 \in PairMasses, r2 \in PairRadii :
        /\ meshPosition = <<p1, p2>>
        /\ meshHalf = <<UnitCube, UnitCube>>
        /\ physicsBodies =
             << CreateRigidBody(1, p1, UnitCube,
                                [NoOptions EXCEPT !.mass = m1]),
                CreateRigidBody(2, p2, UnitCube,
                                [NoOptions EXCEPT !.mass = Some(2000),
                                                  !.collisionRadius = r2]) >>
        /\ collisionObjects = <<>>
        /\ interactableObjects = <<>>
        /\ itemCollectedCalls = <<>>
        /\ triggerActivatedCalls = <<>>
        /\ removalTimers = <<>>
        /\ inScene = <<>>
        /\ log = <<>>
        /\ updates = 0
        /\ calls = 0
        /\ ragdolls = <<>>
        /\ character = None

DoPairImpulse ==
    \E i \in 1..Len(physicsBodies), impulse \in PairImpulses :
        /\ calls < MaxCalls
        /\ calls' = calls + 1
        /\ physicsBodies' = [physicsBodies EXCEPT ![i] = ApplyImpulse(@, impulse)]
        /\ UNCHANGED <<meshPosition, meshHalf, character, ragdolls, collisionObjects,
                       interactableObjects,
                       itemCollectedCalls, triggerActivatedCalls, removalTimers,
                       inScene, log, updates>>

NextPair ==
    \/ DoUpdate
    \/ DoPairImpulse

SpecPair == InitPair /\ [][NextPair]_vars

---------------------------------------------------------------------------
(* Reading the log of the last update() *)

Events(kind) == {n \in 1..Len(log) : log[n].kind = kind}

Threshold(e) == GroundLevel + e.radius

Fresh(body) ==
    body.boundingBox = SetFromObject(meshPosition[body.uuid], meshHalf[body.uuid])

---------------------------------------------------------------------------
(* C1 as stated: a body below the ground threshold with downward velocity  *)
(* before an integration step is, after it, at the threshold with          *)
(* velocity.y = 0 and onGround, whatever acceleration is pending.          *)
C1_ClampWhateverPending ==
    \A n \in Events("integrate") :
        LET e == log[n]
        IN (e.pos0.y < Threshold(e) /\ e.vel0.y < 0)
           => (e.pos1.y = Threshold(e) /\ e.vel1.y = 0 /\ e.ground1)

(* C1 amended: a body below the ground threshold with downward velocity    *)
(* before the step, whose vertical velocity is still downward once the     *)
(* step has integrated the pending acceleration (gravity included) and     *)
(* the damping, ends the step at the threshold with velocity.y = 0 and     *)
(* onGround.                                                               *)
C1_GroundClamp ==
    \A n \in Events("integrate") :
        LET e == log[n]
        IN (e.pos0.y < Threshold(e) /\ e.vel0.y < 0 /\ e.velMid.y < 0)
           => (e.pos1.y = Threshold(e) /\ e.vel1.y = 0 /\ e.ground1)

C1_Witness ==
    \E n \in Events("integrate") :
        LET e == log[n]
        IN /\ e.pos0.y < Threshold(e) /\ e.vel0.y < 0 /\ e.velMid.y < 0
           /\ e.acc0.y > 0
           /\ e.pos1.y = Threshold(e) /\ e.ground1

(* C2: after update() every non-static body's boundingBox is the box of    *)
(* its mesh at the mesh's current position.                                *)
C2_BoxesFresh ==
    \A i \in 1..Len(physicsBodies) :
        ~ physicsBodies[i].isStatic => Fresh(physicsBodies[i])

(* C3: after an integration step onGround is true exactly when the step    *)
(* brought the body to the ground plane with downward velocity, and false  *)
(* in every other case.                                                    *)
C3_OnGroundIffClamped ==
    \A n \in Events("integrate") :
        LET e == log[n]
        IN e.ground1 <=> (e.posMid.y <= Threshold(e) /\ e.velMid.y < 0)

(* C4 as stated: within one update() every static-collision resolution,   *)
(* of whatever body, comes before every dynamic-dynamic resolution.        *)
C4_StaticPassFirst ==
    \A m \in Events("dynamic"), n \in Events("static") : n < m

(* C4 amended: within one update() every static-collision resolution of a  *)
(* body comes before every dynamic-dynamic resolution that the same body   *)
(* starts; the static resolutions of a later body follow the dynamic       *)
(* resolutions of the earlier ones.                                        *)
C4_StaticBeforeOwnDynamic ==
    \A m \in Events("dynamic"), n \in Events("static") :
        /\ log[n].body = log[m].a => n < m
        /\ log[n].body > log[m].a => m < n

C4_Witness ==
    \E m \in Events("dynamic"), n \in Events("static"), k \in Events("static") :
        /\ log[n].body = log[m].a
        /\ log[k].body > log[m].a

Rank(e) ==
    IF e.kind = "integrate" THEN 1
    ELSE IF e.kind = "interact" THEN 3
    ELSE 2

(* C5: within one update() every non-static body is integrated before the  *)
(* first collision test, every interaction is evaluated after the last     *)
(* collision test and resolution, and each interaction is evaluated at the *)
(* position the body has when update() returns.                            *)
C5_IntegrateCollideInteract ==
    /\ \A m, n \in 1..Len(log) : m < n => Rank(log[m]) <= Rank(log[n])
    /\ updates > 0 =>
          \A i \in 1..Len(physicsBodies) :
              ~ physicsBodies[i].isStatic
                  => \E n \in Events("integrate") : log[n].body = i
    /\ \A n \in Events("interact") :
          log[n].pos = meshPosition[physicsBodies[log[n].body].uuid]

C5_Witness ==
    /\ Cardinality({log[n].body : n \in Events("integrate")}) = 2
    /\ Events("dynamic") # {}
    /\ Events("static") # {}
    /\ \E n \in Events("interact") : log[n].pos # log[CHOOSE m \in Events("integrate") : log[m].body = log[n].body].pos1

(* C6: after resolveCollision the overlap of the body's box with the       *)
(* obstacle's, recomputed on the chosen separation axis, is at most the    *)
(* skin width.                                                             *)
C6_StaticSeparated ==
    \A n \in Events("static") :
        LET e == log[n]
            obox == collisionObjects[e.obstacle].boundingBox
        IN Component(Overlaps(e.box1, obox), e.axis) <= SkinWidth

InReach(n) ==
    \E i \in 1..Len(physicsBodies) :
        InInteractionRange(meshPosition[physicsBodies[i].uuid],
                           interactableObjects[n].position)

(* C7: once an update() has returned, every `item` interactable that a     *)
(* body is within 2.0 of is collected, and onItemCollected has been        *)
(* invoked for an item exactly once if it is collected and never if not.   *)
C7_ItemCollectedOnce ==
    \A n \in 1..Len(interactableObjects) :
        interactableObjects[n].type = "item" =>
            /\ (updates > 0 /\ InReach(n)) => interactableObjects[n].collected
            /\ itemCollectedCalls[n] = IF interactableObjects[n].collected THEN 1 ELSE 0

\* two updates have run, both bodies stand within reach of the item
C7_Witness ==
    /\ updates = 2
    /\ interactableObjects[1].type = "item"
    /\ \A i \in 1..Len(physicsBodies) :
          InInteractionRange(meshPosition[physicsBodies[i].uuid],
                             interactableObjects[1].position)
    /\ itemCollectedCalls[1] = 1
    /\ calls = 0

(* C8: once collected is true it stays true, and nothing that happens      *)
(* afterwards, a further collectItem included, invokes the callback or     *)
(* schedules a scene removal for that interactable again.                  *)
C8_CollectedTerminal ==
    [][\A n \in 1..Len(interactableObjects) :
          interactableObjects[n].collected =>
              /\ interactableObjects'[n].collected
              /\ itemCollectedCalls'[n] = itemCollectedCalls[n]
              /\ removalTimers'[n] <= removalTimers[n]]_vars

\* two calls were made and neither was a push or a collection of the other
\* interactable: collectItem ran twice on the first one
C8_Witness ==
    /\ calls = 2 /\ updates = 0
    /\ physicsBodies[1].velocity = Zero /\ physicsBodies[1].acceleration = Zero
    /\ interactableObjects[1].collected /\ ~ interactableObjects[2].collected
    /\ itemCollectedCalls[1] = 1

Settled ==
    /\ meshPosition[1].y = GroundLevel + physicsBodies[1].collisionRadius
    /\ physicsBodies[1].velocity.y = 0
    /\ physicsBodies[1].onGround

(* C9: the falling body eventually rests at groundLevel + collisionRadius   *)
(* with velocity.y = 0 and onGround, and is so after every later update.   *)
C9_FallSettles == <>[]Settled

C9_Witness == Settled /\ Len(log) = 1 /\ log[1].pos0.y = GroundLevel + log[1].radius

(* C10: resolveDynamicCollision moves the two bodies by exact negatives of *)
(* each other, and moves neither on an axis on which the centres agree.    *)
C10_OppositeDisplacement ==
    \A n \in Events("dynamic") :
        LET e == log[n]
            dA == VSub(e.posA1, e.posA0)
            dB == VSub(e.posB1, e.posB0)
        IN /\ dA = VNeg(dB)
           /\ e.separation.x = 0 => dA.x = 0
           /\ e.separation.y = 0 => dA.y = 0
           /\ e.separation.z = 0 => dA.z = 0

C10_Witness ==
    \E n \in Events("dynamic") :
        /\ log[n].posA1 # log[n].posA0
        /\ log[n].separation.x # 0 /\ log[n].separation.y # 0

(* C11: a dynamic-dynamic resolution of two bodies with distinct centres    *)
(* and zero relative velocity along the normal leaves the centres at least *)
(* radiusA + radiusB - skinWidth apart and both velocities as they were.   *)
C11_RestingPairSeparated ==
    \A n \in Events("dynamic") :
        LET e == log[n]
            along == VDot(VSub(e.velA0, e.velB0), VNormalize(e.separation))
        IN (e.distance > 0 /\ along = 0)
           => /\ VDistance(e.posA1, e.posB1)
                    >= physicsBodies[e.a].collisionRadius
                       + physicsBodies[e.b].collisionRadius - SkinWidth
              /\ e.velA1 = e.velA0
              /\ e.velB1 = e.velB0

C11_Witness ==
    \E n \in Events("dynamic") :
        LET e == log[n]
        IN /\ e.distance > 0
           /\ VDot(VSub(e.velA0, e.velB0), VNormalize(e.separation)) = 0
           /\ e.branch = "impulse"
           /\ e.posA1 # e.posA0

\* the static collision objects a ray meets, by geometry
RayMeets(e) ==
    {k \in 1..Len(collisionObjects) :
        RayDistance(e.origin, e.direction, collisionObjects[k].boundingBox) >= 0}

(* C12: raycastCollision reports a miss exactly when the ray meets no       *)
(* static collision object or meets the nearest one beyond maxDistance;    *)
(* otherwise it reports the nearest static collision object, at a distance *)
(* of at most maxDistance; bodies and interactables are never reported.    *)
C12_RaycastNearestStatic ==
    \A n \in Events("raycast") :
        LET e == log[n]
            dist(k) == RayDistance(e.origin, e.direction, collisionObjects[k].boundingBox)
            inRange == {k \in RayMeets(e) : dist(k) <= e.maxDistance}
        IN IF inRange = {}
           THEN e.result = Miss
           ELSE /\ e.result.hit
                /\ e.result.object \in inRange
                /\ e.result.distance = dist(e.result.object)
                /\ e.result.distance <= e.maxDistance
                /\ \A k \in RayMeets(e) : e.result.distance <= dist(k)

\* the ray passes the body and the interactable, then the farther box, which
\* was registered first, and reports the nearer box, at exactly maxDistance
C12_Witness ==
    \E n \in Events("raycast") :
        LET e == log[n]
        IN /\ e.result.hit
           /\ e.result.object = 2
           /\ RayMeets(e) = {1, 2}
           /\ e.result.distance = e.maxDistance
           /\ RayDistance(e.origin, e.direction, physicsBodies[1].boundingBox) >= 0
           /\ RayDistance(e.origin, e.direction, physicsBodies[1].boundingBox)
                  < e.result.distance

(* C13: a dynamic-dynamic resolution of two bodies whose box centres        *)
(* coincide changes neither body's position nor velocity.                  *)
C13_CoincidentUntouched ==
    \A n \in Events("dynamic") :
        LET e == log[n]
        IN e.separation = Zero
           => /\ e.posA1 = e.posA0 /\ e.posB1 = e.posB0
              /\ e.velA1 = e.velA0 /\ e.velB1 = e.velB0

\* both bodies were integrated to the same place and their pair was resolved
C13_Witness ==
    \E n \in Events("dynamic") :
        /\ log[n].separation = Zero
        /\ log[n].distance = 0
        /\ log[n].posA0 = log[n].posB0
        /\ log[n].boxA1 = SetFromObject(log[n].posA0, UnitCube)

(* C14: an update() leaves the position, the velocity and the bounding box *)
(* of every static body as they were.                                      *)
C14_StaticBodyUntouched ==
    [][updates' # updates =>
          \A i \in 1..Len(physicsBodies) :
              physicsBodies[i].isStatic =>
                  /\ meshPosition'[physicsBodies[i].uuid] = meshPosition[physicsBodies[i].uuid]
                  /\ physicsBodies'[i].velocity = physicsBodies[i].velocity
                  /\ physicsBodies'[i].boundingBox = physicsBodies[i].boundingBox]_vars

\* two updates have run and the dynamic body still overlaps the static one
C14_Witness ==
    /\ updates = 2
    /\ physicsBodies[2].isStatic /\ ~ physicsBodies[1].isStatic
    /\ IntersectsBox(physicsBodies[1].boundingBox, physicsBodies[2].boundingBox)
    /\ meshPosition[1] # meshPosition[2]
    /\ Events("integrate") # {}

(* C15: an interaction is dispatched for a body and an interactable only   *)
(* if the body is not static, the interactable is not yet collected and    *)
(* the two are strictly less than 2.0 apart.                               *)
C15_DispatchOnlyDynamicNear ==
    \A n \in Events("interact") :
        LET e == log[n]
            d == VSub(e.pos, interactableObjects[e.item].position)
        IN e.near =>
              /\ ~ physicsBodies[e.body].isStatic
              /\ VDot(d, d) < InteractionRange * InteractionRange
              /\ \A m \in Events("interact") :
                     (m < n /\ log[m].item = e.item /\ log[m].near) => e.type # "item"

(* C16: once an update() has returned, an interactable tagged              *)
(* 'health_potion' that a body is within range of is collected and         *)
(* onItemCollected has been invoked with it.                               *)
C16_PotionPickedUp ==
    \A n \in 1..Len(interactableObjects) :
        (interactableObjects[n].type = "health_potion" /\ updates > 0 /\ InReach(n))
            => /\ interactableObjects[n].collected
               /\ itemCollectedCalls[n] >= 1

\* deltas of 1/30 s and more, and deltas below 1/30 s, in ticks
LongDeltas == {MaxDelta, MaxDelta + 1, 6, 12}
ShortDeltas == {1, 2, 3}

\* the positions, bodies and interactables two updates end with agree
SameOutcome(a, b) ==
    /\ a.pos = b.pos
    /\ a.bodies = b.bodies
    /\ a.items = b.items
    /\ a.itemCalls = b.itemCalls
    /\ a.trigCalls = b.trigCalls

\* the update pipeline run with the delta as supplied
Unclamped(w, deltaTime) ==
    UpdateInteractions(HandleCollisions(IntegrateAll(w, 1, deltaTime)))

(* C17: from every state, update(deltaTime) with deltaTime >= 1/30 ends in *)
(* the state update(1/30) ends in, and update(deltaTime) with              *)
(* deltaTime < 1/30 integrates with deltaTime itself.                      *)
C17_DeltaClamped ==
    \A ref \in {Update(World, MaxDelta)} :
        /\ \A dt \in LongDeltas : \A got \in {Update(World, dt)} : SameOutcome(got, ref)
        /\ \A dt \in ShortDeltas :
              \A got \in {Update(World, dt)}, raw \in {Unclamped(World, dt)} :
                  SameOutcome(got, raw)

\* a state, after an update, from which the delta matters: 1/60 and 1/30
\* lead to different positions, 1/10 and 1/30 to the same
C17_Witness ==
    /\ updates > 0
    /\ \A ref \in {Update(World, MaxDelta)} :
          /\ \A got \in {Update(World, 12)} : SameOutcome(got, ref)
          /\ \A got \in {Update(World, 2)} : got.pos # ref.pos
          /\ \A raw \in {Unclamped(World, 12)} : raw.pos # ref.pos

KnownType(n) == interactableObjects[n].type \in {"item", "trigger"}

EventBodies(e) ==
    IF e.kind = "dynamic" THEN {e.a, e.b}
    ELSE IF e.kind = "test" /\ e.dynamic THEN {e.body, e.other}
    ELSE {e.body}

(* C19: after removeRigidBody(mesh) getPhysicsBody(mesh) is absent;        *)
(* removeRigidBody of a mesh without a body changes nothing; after         *)
(* createRigidBody(mesh) the registry holds the new body for the mesh and  *)
(* no other; the registry never holds two bodies for one mesh; and an      *)
(* update() leaves a mesh without a body where it is, keeps it without a   *)
(* body, and integrates, tests and evaluates registered bodies only.       *)
C19_RegistryLifecycle ==
    [][/\ \A u \in Meshes :
             Cardinality({k \in 1..Len(physicsBodies') : physicsBodies'[k].uuid = u}) <= 1
       /\ \A n \in 1..Len(log') :
             /\ log'[n].kind = "remove" =>
                   /\ GetPhysicsBody(physicsBodies', log'[n].mesh) = None
                   /\ (calls' # calls /\ ~ log'[n].had) => physicsBodies' = physicsBodies
             /\ log'[n].kind = "create" =>
                   GetPhysicsBody(physicsBodies', log'[n].mesh)
                      = Some(CreateRigidBody(log'[n].mesh, meshPosition'[log'[n].mesh],
                                             meshHalf'[log'[n].mesh], log'[n].options))
       /\ updates' # updates =>
             /\ \A u \in Meshes :
                   GetPhysicsBody(physicsBodies, u) = None =>
                       /\ meshPosition'[u] = meshPosition[u]
                       /\ GetPhysicsBody(physicsBodies', u) = None
             /\ \A n \in 1..Len(log') :
                   EventBodies(log'[n]) \subseteq 1..Len(physicsBodies)
             /\ (\A i \in 1..Len(physicsBodies) :
                     ~ InInteractionRange(meshPosition'[physicsBodies[i].uuid],
                                          interactableObjects[1].position))
                   => interactableObjects' = interactableObjects
      ]_vars

\* mesh 2 lost its body and an update has run since: mesh 1 has fallen,
\* mesh 2 hangs where it was, the item in its reach is not collected
C19_Witness ==
    /\ GetPhysicsBody(physicsBodies, 2) = None
    /\ GetPhysicsBody(physicsBodies, 1) # None
    /\ calls > 0
    /\ Events("integrate") # {}
    /\ meshPosition[1].y < RegistryPositions[1].y
    /\ meshPosition[2] = RegistryPositions[2]
    /\ InInteractionRange(meshPosition[2], interactableObjects[1].position)
    /\ ~ interactableObjects[1].collected

\* the last call was updateRagdoll(ragdolls[r], deltaTime)
UpdatedRagdollLast(r, deltaTime) ==
    log = << [kind |-> "updateRagdoll", ragdoll |-> r, deltaTime |-> deltaTime] >>

\* the step just taken was updateRagdoll(ragdolls[r], deltaTime)
UpdatedRagdoll(r, deltaTime) ==
    /\ updates' # updates
    /\ log' = << [kind |-> "updateRagdoll", ragdoll |-> r, deltaTime |-> deltaTime] >>

(* C20: a ragdoll is dormant until activateRagdoll is called; an           *)
(* updateRagdoll of a dormant ragdoll leaves every bone's position,        *)
(* velocity and acceleration as they were; an active ragdoll stays active  *)
(* whatever happens next, and an updateRagdoll of an active ragdoll        *)
(* integrates every bone: gravity and the pending acceleration into the    *)
(* velocity, damped, the velocity into the position, acceleration reset.   *)
C20_RagdollDormantThenActive ==
    [][\A r \in 1..Len(ragdolls) :
          /\ calls = 0 => ~ ragdolls[r].isActive
          /\ ragdolls[r].isActive => ragdolls'[r].isActive
          /\ \A deltaTime \in DeltaTimes :
                UpdatedRagdoll(r, deltaTime) =>
                    IF ~ ragdolls[r].isActive
                    THEN ragdolls'[r] = ragdolls[r]
                    ELSE \A k \in 1..Len(ragdolls[r].bones) :
                           LET old == ragdolls[r].bones[k]
                               new == ragdolls'[r].bones[k]
                           IN /\ new.velocity
                                    = VScale(VAdd(old.velocity,
                                                  VTimes(VAdd(old.acceleration, Gravity),
                                                         deltaTime)),
                                             BoneDamping, Scale)
                              /\ new.position
                                    = VAdd(old.position, VTimes(new.velocity, deltaTime))
                              /\ new.acceleration = Zero
      ]_vars

\* dormant after two updateRagdoll calls, the bones where they were created
C20_Witness ==
    /\ updates = 2 /\ calls = 0
    /\ \E deltaTime \in DeltaTimes : UpdatedRagdollLast(1, deltaTime)
    /\ ~ ragdolls[1].isActive
    /\ \E bonePositions \in BonePositions : ragdolls[1] = CreateRagdoll(bonePositions)

(* C21: the character starts a jump only when Space is down while it is on *)
(* the ground, and an update with none but movement keys down leaves a     *)
(* grounded character grounded, without vertical velocity.                 *)
C21_JumpOnlyOnSpace ==
    \A n \in Events("character") :
        LET e == log[n]
        IN /\ e.jumped => ("Space" \in e.keys /\ e.ground0)
           /\ (e.keys \subseteq {"KeyW", "KeyA", "KeyS", "KeyD"}
                  /\ e.ground0 /\ e.vel0.y = 0)
                 => (e.vel1.y = 0 /\ e.pos1.y = e.pos0.y /\ e.ground1)


(* C22: after resolveCollision for a body whose velocity points into the   *)
(* obstacle along the separation axis, the velocity component along that   *)
(* axis is no longer directed into the obstacle, and the components on the *)
(* other two axes are unchanged.                                           *)
C22_VelocityNotIntoObstacle ==
    \A n \in Events("static") :
        LET e == log[n]
        IN VDot(e.vel0, e.unit) < 0 =>
              /\ VDot(e.vel1, e.unit) >= 0
              /\ \A a \in {"x", "y", "z"} :
                     a # e.axis => Component(e.vel1, a) = Component(e.vel0, a)


\* the second evaluation of a pair within one update(): the same two bodies
\* as an earlier resolution, seen from the other body, with no other
\* resolution in between
SecondEvaluation(m, n) ==
    /\ m < n
    /\ log[m].a = log[n].b
    /\ log[m].b = log[n].a
    /\ \A k \in (m + 1)..(n - 1) : log[k].kind \notin {"static", "dynamic"}

(* C23: within one update() the second evaluation of an overlapping        *)
(* dynamic pair, from the other body's perspective, displaces neither body *)
(* and changes neither velocity.                                           *)
C23_NoDoubleResolutionDrift ==
    \A m, n \in Events("dynamic") :
        SecondEvaluation(m, n) =>
            LET e == log[n]
            IN /\ e.posA1 = e.posA0 /\ e.posB1 = e.posB0
               /\ e.velA1 = e.velA0 /\ e.velB1 = e.velB0


(* C24: resolveDynamicCollision pushes apart and never together: after the *)
(* resolution of an intersecting pair the centers of the two bodies are at *)
(* least as far from each other as before.                                 *)
C24_PushedApart ==
    \A n \in Events("dynamic") :
        LET e == log[n]
        IN VDistance(e.posA1, e.posB1) >= VDistance(e.posA0, e.posB0)


\* the relative velocity of a resolved pair along its normal, before and
\* after, on the grid
ClosingBefore(e) == RDiv(VDot(VSub(e.velA0, e.velB0), e.normal), Scale)

ClosingAfter(e) == RDiv(VDot(VSub(e.velA1, e.velB1), e.normal), Scale)

\* the masses of the two bodies summed
PairMass(e) == physicsBodies[e.a].mass + physicsBodies[e.b].mass

\* what the grid can add to a velocity change of the pair: the rounding of
\* the impulse weighs the summed masses, the rounding of the normal one
\* hundredth of the closing velocity, the four roundings of the kicks two
\* grid steps
Slack(e) == PairMass(e) \div Scale + Abs(ClosingBefore(e)) \div 100 + 2

(* C25: for two approaching bodies (relative velocity along the normal     *)
(* below 0) the relative velocity along the normal after the resolution is *)
(* -0.5 times the one before, to within the rounding of the grid, so that  *)
(* bodies closing faster than the grid resolves no longer approach.        *)
C25_HalfClosingVelocityReturned ==
    \A n \in Events("dynamic") :
        LET e == log[n]
        IN (e.distance > 0 /\ ClosingBefore(e) < 0) =>
              /\ Abs(Scale * ClosingAfter(e) + Restitution * ClosingBefore(e))
                    <= Scale * Slack(e)
              /\ ClosingBefore(e) < -(2 * Slack(e)) => ClosingAfter(e) > 0

C25_Witness ==
    \E n \in Events("dynamic") :
        LET e == log[n]
        IN /\ e.distance > 0
           /\ ClosingBefore(e) < -Scale
           /\ physicsBodies[e.a].mass # physicsBodies[e.b].mass
           /\ e.normal.x # 0 /\ e.normal.y # 0


\* the value an option stands for: the supplied one, the default if omitted
Supplied(o, d) == IF o = None THEN d ELSE o[1]

(* C26: a body just created carries exactly the supplied friction, damping, *)
(* mass and collisionRadius, a supplied 0 included, and the defaults for    *)
(* the options that were omitted.                                           *)
C26_SuppliedOptionsHonoured ==
    \A n \in Events("create") :
        LET e == log[n]
            body == GetPhysicsBody(physicsBodies, e.mesh)[1]
        IN /\ body.friction = Supplied(e.options.friction, DefaultFriction)
           /\ body.damping = Supplied(e.options.damping, DefaultDamping)
           /\ body.mass = Supplied(e.options.mass, DefaultMass)
           /\ body.collisionRadius = Supplied(e.options.collisionRadius, DefaultRadius)


\* the axis with the smallest absolute overlap, X before Y before Z on ties
SmallestOverlapAxis(ov) ==
    IF Abs(ov.x) <= Abs(ov.y) /\ Abs(ov.x) <= Abs(ov.z) THEN "x"
    ELSE IF Abs(ov.y) <= Abs(ov.z) THEN "y"
    ELSE "z"

(* C27: resolveCollision separates along the axis with the smallest        *)
(* absolute overlap (X, then Y, then Z on ties) and moves the body along   *)
(* that axis only, by |minOverlap| + skinWidth away from the obstacle's    *)
(* center.                                                                 *)
C27_MinimumTranslation ==
    \A n \in Events("static") :
        LET e == log[n]
            obox == collisionObjects[e.obstacle].boundingBox
            ov == Overlaps(e.box0, obox)
            move == VSub(e.pos1, e.pos0)
            away == Component(VSub(GetCenter(e.box0), GetCenter(obox)), e.axis)
        IN /\ e.axis = SmallestOverlapAxis(ov)
           /\ \A a \in {"x", "y", "z"} : a # e.axis => Component(move, a) = 0
           /\ Abs(Component(move, e.axis)) = Abs(Component(ov, e.axis)) + SkinWidth
           /\ Component(move, e.axis) * away >= 0


\* the bodies within the interaction range of interactable n
BodiesInRange(n) ==
    {i \in 1..Len(physicsBodies) :
        InInteractionRange(meshPosition[physicsBodies[i].uuid],
                           interactableObjects[n].position)}

(* C28: every update() fires onTriggerActivated of a `trigger` once for    *)
(* each body in its range, the updates after the first included, and       *)
(* leaves the trigger as it was, its collected flag false.                 *)
C28_TriggerFiresPerBody ==
    [][updates' = updates + 1 =>
          \A n \in 1..Len(interactableObjects) :
              interactableObjects[n].type = "trigger" =>
                 /\ triggerActivatedCalls'[n]
                       = triggerActivatedCalls[n] + Cardinality(BodiesInRange(n)')
                 /\ interactableObjects'[n] = interactableObjects[n]
                 /\ ~ interactableObjects'[n].collected]_vars

C28_Witness ==
    /\ updates = 2
    /\ \E n \in 1..Len(interactableObjects) :
          /\ interactableObjects[n].type = "trigger"
          /\ triggerActivatedCalls[n] = 3
          /\ Cardinality(BodiesInRange(n)) = 1


(* C29: after every update() every non-static body is at or above the      *)
(* ground threshold: position.y >= groundLevel + collisionRadius.          *)
C29_NeverBelowGround ==
    updates > 0 =>
        \A i \in 1..Len(physicsBodies) :
            ~ physicsBodies[i].isStatic =>
                meshPosition[physicsBodies[i].uuid].y
                    >= GroundLevel + physicsBodies[i].collisionRadius


\* massA * velocityA + massB * velocityB of a resolved pair, before and after
MomentumBefore(e) ==
    VAdd(VScale(e.velA0, physicsBodies[e.a].mass, 1),
         VScale(e.velB0, physicsBodies[e.b].mass, 1))

MomentumAfter(e) ==
    VAdd(VScale(e.velA1, physicsBodies[e.a].mass, 1),
         VScale(e.velB1, physicsBodies[e.b].mass, 1))

(* C30: resolveDynamicCollision conserves linear momentum: in every branch *)
(* massA * velocityA + massB * velocityB is after the call what it was     *)
(* before, to within one grid step of each body's velocity.                *)
C30_MomentumConserved ==
    \A n \in Events("dynamic") :
        LET e == log[n]
            change == VSub(MomentumAfter(e), MomentumBefore(e))
        IN \A a \in {"x", "y", "z"} : Abs(Component(change, a)) <= PairMass(e)

C30_Witness ==
    \E n \in Events("dynamic") :
        LET e == log[n]
        IN /\ e.branch = "impulse"
           /\ e.velA1 # e.velA0 /\ e.velB1 # e.velB0
           /\ ClosingBefore(e) < -Scale
           /\ physicsBodies[e.a].mass # physicsBodies[e.b].mass

====
